---- MODULE Spec2Model ----
(***************************************************************************)
(* Nagma backend: authentication (register / login / JWT session          *)
(* middleware) and the playlist routes, as a state machine over the three *)
(* MongoDB collections, the server clock and the browser's token slot.    *)
(* Every route handler performs one store operation, so a handler is one  *)
(* atomic action; where requests overlap in time, a request is received   *)
(* (middleware, body read) in one step and its store operation is applied *)
(* and answered in a later one.                                            *)
(***************************************************************************)
EXTENDS Integers, Sequences, FiniteSets, TLC

VARIABLES users, songs, playlists, nextPid, now, localStorage, last, inflight

vars == <<users, songs, playlists, nextPid, now, localStorage, last, inflight>>

----------------------------------------------------------------------------
(* Bounds and input domains *)

MaxPlaylists == 2
MaxLen == 2
MaxHours == 1
\* requests that wait for the store at the same time
MaxInflight == 2

\* expiresIn: '1h', in the seconds jsonwebtoken counts in
ExpiresIn == 3600
\* process.env.JWT_SECRET, and a key that is not it
JWT_SECRET == "JWT_SECRET"
OtherKey == "attacker-key"

Usernames == {"alice", "bob"}
Passwords == {"pw1", "pw2"}
Salts == {"saltA", "saltB"}
PlaylistNames == {"Chill"}
SongIds == {"s1", "s2", "s3"}

\* optional values: undefined / null is the empty tuple
None == <<>>
Some(x) == <<x>>

\* the songs array of a request body
SongLists == UNION {[1..n -> SongIds] : n \in 0..MaxLen}

\* songs arrays of at most one reference, to s1 or s2
ShortLists == {<<>>, <<"s1">>, <<"s2">>}

\* ids a client may put in the :playlistId path parameter
PlaylistIds == 1..MaxPlaylists

\* instants the clock visits: around every whole hour up to MaxHours
Instants == {t \in UNION {{h * ExpiresIn - 1, h * ExpiresIn, h * ExpiresIn + 1} : h \in 0..MaxHours} : t >= 0}

----------------------------------------------------------------------------
(* Pure helpers *)

SeqToSet(s) == {s[i] : i \in DOMAIN s}

NoDup(s) == \A i, j \in DOMAIN s : s[i] = s[j] => i = j

RECURSIVE Filter(_, _)
Filter(s, keep) ==
    IF s = <<>> THEN <<>>
    ELSE IF Head(s) \in keep THEN <<Head(s)>> \o Filter(Tail(s), keep)
    ELSE Filter(Tail(s), keep)

----------------------------------------------------------------------------
(* bcrypt: a salted one-way hash and its comparison *)

bcryptHash(password, salt) == [salt |-> salt, digest |-> <<salt, password>>]

bcryptCompare(password, hash) == hash.digest = <<hash.salt, password>>

----------------------------------------------------------------------------
(* jsonwebtoken: HS256 signature over the payload, expiry in seconds *)

Sign(payload, key) == [key |-> key, over |-> payload]

\* jwt.sign with a key that is not the one it was given
jwtSignOtherKey(claims, key, t) ==
    LET payload == [userId |-> claims.userId, username |-> claims.username,
                    iat |-> t, exp |-> t + ExpiresIn]
    IN  [payload |-> payload, sig |-> Sign(payload, <<"not", key>>)]

jwtSign(claims, key, t) ==
    LET payload == [userId |-> claims.userId, username |-> claims.username,
                    iat |-> t, exp |-> t + ExpiresIn]
    IN  [payload |-> payload, sig |-> Sign(payload, key)]

\* a header string is a sequence of chunks: a space, a word, or a JWT
SP == [sp |-> " "]
Word(w) == [word |-> w]
IsJwt(c) == DOMAIN c = {"payload", "sig"}

\* jwt.verify that still accepts the token at its expiry instant
jwtVerifyInclusive(token, key, t) ==
    IF Len(token) = 1 /\ IsJwt(token[1])
       /\ token[1].sig = Sign(token[1].payload, key)
       /\ t <= token[1].payload.exp
    THEN Some(token[1].payload)
    ELSE None

\* jwt.verify(token, key) at time t: the payload, or None when it throws
jwtVerify(token, key, t) ==
    IF Len(token) = 1 /\ IsJwt(token[1])
       /\ token[1].sig = Sign(token[1].payload, key)
       /\ t < token[1].payload.exp
    THEN Some(token[1].payload)
    ELSE None

\* String.prototype.split(' '): the pieces between the spaces
RECURSIVE Split(_)
Split(s) ==
    IF s = <<>> THEN << <<>> >>
    ELSE LET r == Split(Tail(s))
         IN  IF Head(s) = SP THEN << <<>> >> \o r
             ELSE << <<Head(s)>> \o r[1] >> \o Tail(r)

----------------------------------------------------------------------------
(* Session middleware *)

\* req.header('Authorization')?.split(' ')[1]
ExtractToken(header) ==
    IF header = None THEN None
    ELSE LET parts == Split(header[1])
         IN  IF Len(parts) >= 2 THEN Some(parts[2]) ELSE None

\* authMiddleware with jwt.decode in place of jwt.verify: nothing is checked
authMiddlewareDecodeOnly(header, t) ==
    LET token == ExtractToken(header)
    IN  IF token = None \/ token[1] = <<>>
        THEN [next |-> FALSE, status |-> 401, user |-> None,
              message |-> "No token provided, authorization denied"]
        ELSE IF Len(token[1]) = 1 /\ IsJwt(token[1][1])
             THEN [next |-> TRUE, status |-> 0, user |-> Some(token[1][1].payload),
                   message |-> ""]
             ELSE [next |-> FALSE, status |-> 401, user |-> None,
                   message |-> "Invalid token"]

\* the request after the middleware: next() was called with req.user set,
\* or the response was ended with 401
authMiddleware(header, t) ==
    LET token == ExtractToken(header)
    IN  IF token = None \/ token[1] = <<>>
        THEN [next |-> FALSE, status |-> 401, user |-> None,
              message |-> "No token provided, authorization denied"]
        ELSE LET decoded == jwtVerify(token[1], JWT_SECRET, t)
             IN  IF decoded # None
                 THEN [next |-> TRUE, status |-> 0, user |-> decoded, message |-> ""]
                 ELSE [next |-> FALSE, status |-> 401, user |-> None,
                       message |-> "Invalid token"]

----------------------------------------------------------------------------
(* MongoDB / mongoose operations the handlers use *)

\* User.findOne({ username }): the first matching document (its _id is its
\* position in the collection), or None
FindUser(username) ==
    IF \E i \in DOMAIN users : users[i].username = username
    THEN LET i == CHOOSE i \in DOMAIN users :
                      /\ users[i].username = username
                      /\ \A j \in DOMAIN users : users[j].username = username => i <= j
         IN  Some([_id |-> i, username |-> users[i].username, password |-> users[i].password])
    ELSE None

\* the unique index on User.username: save() rejects a second document
DuplicateKey(username) == \E i \in DOMAIN users : users[i].username = username

\* { $push: { songs: { $each: each } } }
AddToSetPush(arr, each) == arr \o each

\* { $addToSet: { songs: { $each: each } } }: append, in order, every
\* element the array does not hold yet
RECURSIVE AddToSet(_, _)
AddToSet(arr, each) ==
    IF each = <<>> THEN arr
    ELSE AddToSet(IF Head(each) \in SeqToSet(arr) THEN arr ELSE Append(arr, Head(each)),
                  Tail(each))

\* .populate('songs'): every reference replaced by its Song document;
\* references to no document are dropped
Populate(doc) == [doc EXCEPT !.songs = Filter(@, songs)]

\* Playlist.find({}) from i on: the filter left out
RECURSIVE FindAllFrom(_, _)
FindAllFrom(i, userId) ==
    IF i >= nextPid THEN <<>>
    ELSE IF i \in DOMAIN playlists
         THEN <<playlists[i]>> \o FindAllFrom(i + 1, userId)
         ELSE FindAllFrom(i + 1, userId)

\* Playlist.find({ userId }) from i on, in insertion (= _id) order
RECURSIVE FindFrom(_, _)
FindFrom(i, userId) ==
    IF i >= nextPid THEN <<>>
    ELSE IF i \in DOMAIN playlists /\ playlists[i].userId = userId
         THEN <<playlists[i]>> \o FindFrom(i + 1, userId)
         ELSE FindFrom(i + 1, userId)

RECURSIVE PopulateAll(_)
PopulateAll(docs) ==
    IF docs = <<>> THEN <<>> ELSE <<Populate(Head(docs))>> \o PopulateAll(Tail(docs))

----------------------------------------------------------------------------
(* The request most recently answered: what was asked and what came back. *)
(* status 0: no response was sent.                                        *)
(* user is req.user as the route handler saw it, None when no handler ran. *)
(* arg is the request body where it was read; before is the playlist an   *)
(* addSongs or delete found, as it was; again marks an addSongs that      *)
(* directly follows an addSongs that updated the same playlist; seen is    *)
(* the playlist as it was when a request that then waited for the store   *)
(* was received.                                                           *)

Response(op, hdr, arg, status, user, pid, body, before) ==
    [op |-> op, hdr |-> hdr, arg |-> arg, status |-> status, user |-> user,
     pid |-> pid, body |-> body, before |-> before, again |-> FALSE, seen |-> None]

Idle == Response("idle", None, None, 0, None, None, None, None)

\* what becomes of an error thrown inside an async route handler: no route
\* has a try/catch and the app installs no error middleware, so under
\* Express 4 the rejection is dropped and the request is never answered
\* (status 0), and under Express 5 the router hands it to the default error
\* handler, which answers 500 with an HTML page
Unhandled ==
    {[status |-> 0, body |-> None],
     [status |-> 500, body |-> Some([html |-> "Internal Server Error"])]}

\* a token signed with another key
Forged == jwtSign([userId |-> 1, username |-> "alice"], OtherKey, now)

\* Authorization headers a client sends: none, "Bearer", "Bearer ",
\* "Bearer <forged>", and with the token t the browser holds "Bearer <t>",
\* "Basic <t>" and "<t>"
Headers ==
    {None, Some(<<Word("Bearer")>>), Some(<<Word("Bearer"), SP>>),
     Some(<<Word("Bearer"), SP, Forged>>)}
    \cup (IF localStorage = None THEN {}
          ELSE {Some(<<Word("Bearer"), SP, localStorage[1]>>),
                Some(<<Word("Basic"), SP, localStorage[1]>>),
                Some(<<localStorage[1]>>)})

\* the headers among them that are absent or follow the Bearer scheme
BearerHeaders == {h \in Headers : h = None \/ (Len(h[1]) = 3 /\ h[1][1] = Word("Bearer"))}

----------------------------------------------------------------------------
(* State *)

Init ==
    /\ users = <<>>
    /\ songs = {}
    /\ playlists = <<>>
    /\ nextPid = 1
    /\ now = 0
    /\ localStorage = None
    /\ last = Idle
    /\ inflight = {}

stores == <<users, songs, playlists, nextPid>>

----------------------------------------------------------------------------
(* routes/auth.js *)

PostRegister(username, password, salt) ==
    LET arg == Some([username |-> username, password |-> password])
    IN  /\ IF password = None \/ DuplicateKey(username)
           THEN /\ \E e \in Unhandled :
                       last' = Response("register", None, arg, e.status, None, None,
                                        e.body, None)
                /\ UNCHANGED users
           ELSE /\ users' = Append(users, [username |-> username,
                                           password |-> bcryptHash(password[1], salt)])
                /\ last' = Response("register", None, arg, 201, None, None,
                                    Some([message |-> "User registered successfully!"]), None)
        /\ UNCHANGED <<songs, playlists, nextPid, now, localStorage, inflight>>

\* a login that tells an unknown username from a wrong password
PostLoginUserNotFound(username, password) ==
    LET user == FindUser(username)
        arg == Some([username |-> username, password |-> password])
    IN  /\ IF user = None
           THEN /\ last' = Response("login", None, arg, 404, None, None,
                                    Some([message |-> "User not found"]), None)
                /\ UNCHANGED localStorage
           ELSE IF password = None
           THEN /\ \E e \in Unhandled :
                       last' = Response("login", None, arg, e.status, None, None,
                                        e.body, None)
                /\ UNCHANGED localStorage
           ELSE IF bcryptCompare(password[1], user[1].password)
           THEN LET token == jwtSign([userId |-> user[1]._id, username |-> user[1].username],
                                     JWT_SECRET, now)
                IN  /\ last' = Response("login", None, arg, 200, None, None,
                                        Some([message |-> "Login successful!", token |-> token]),
                                        None)
                    /\ localStorage' = Some(token)
           ELSE /\ last' = Response("login", None, arg, 400, None, None,
                                    Some([message |-> "Invalid credentials"]), None)
                /\ UNCHANGED localStorage
        /\ UNCHANGED <<stores, now, inflight>>

\* the server's handler, and the Login page keeping the token it returns
PostLogin(username, password) ==
    LET user == FindUser(username)
        arg == Some([username |-> username, password |-> password])
    IN  /\ IF user # None /\ password = None
           THEN /\ \E e \in Unhandled :
                       last' = Response("login", None, arg, e.status, None, None,
                                        e.body, None)
                /\ UNCHANGED localStorage
           ELSE IF user # None /\ bcryptCompare(password[1], user[1].password)
           THEN LET token == jwtSign([userId |-> user[1]._id, username |-> user[1].username],
                                     JWT_SECRET, now)
                IN  /\ last' = Response("login", None, arg, 200, None, None,
                                        Some([message |-> "Login successful!", token |-> token]),
                                        None)
                    /\ localStorage' = Some(token)
           ELSE /\ last' = Response("login", None, arg, 400, None, None,
                                    Some([message |-> "Invalid credentials"]), None)
                /\ UNCHANGED localStorage
        /\ UNCHANGED <<stores, now, inflight>>

\* Navbar's handleLogout; the request answered earlier is over
handleLogout ==
    /\ localStorage # None
    /\ localStorage' = None
    /\ last' = Idle
    /\ UNCHANGED <<stores, now, inflight>>

----------------------------------------------------------------------------
(* routes/playlists.js: every route runs authMiddleware first *)

Reject(op, header, auth) ==
    /\ last' = Response(op, header, None, auth.status, None, None,
                        Some([message |-> auth.message]), None)
    /\ UNCHANGED <<stores, now, localStorage, inflight>>

PostPlaylist(header, name, list) ==
    LET auth == authMiddleware(header, now)
    IN  IF ~auth.next THEN Reject("create", header, auth)
        ELSE IF name = None
        THEN /\ \E e \in Unhandled :
                    last' = Response("create", header, None, e.status, auth.user, None,
                                     e.body, None)
             /\ UNCHANGED <<stores, now, localStorage, inflight>>
        ELSE LET newPlaylist == [_id |-> nextPid, name |-> name[1],
                                 userId |-> auth.user[1].userId, songs |-> list]
             IN  /\ nextPid <= MaxPlaylists
                 /\ playlists' = playlists @@ (nextPid :> newPlaylist)
                 /\ nextPid' = nextPid + 1
                 /\ last' = Response("create", header, None, 201, auth.user, Some(nextPid),
                                     Some([message |-> "Playlist created successfully!",
                                           playlist |-> newPlaylist]), None)
                 /\ UNCHANGED <<users, songs, now, localStorage, inflight>>

GetPlaylists(header) ==
    LET auth == authMiddleware(header, now)
    IN  IF ~auth.next THEN Reject("list", header, auth)
        ELSE /\ last' = Response("list", header, None, 200, auth.user, None,
                                 Some(PopulateAll(FindFrom(1, auth.user[1].userId))), None)
             /\ UNCHANGED <<stores, now, localStorage, inflight>>

PutPlaylistSongs(header, playlistId, list) ==
    LET auth == authMiddleware(header, now)
    IN  IF ~auth.next THEN Reject("addSongs", header, auth)
        ELSE IF playlistId \notin DOMAIN playlists
        THEN /\ last' = Response("addSongs", header, None, 200, auth.user, Some(playlistId),
                                 None, None)
             /\ UNCHANGED <<stores, now, localStorage, inflight>>
        ELSE LET updatedPlaylist == [playlists[playlistId] EXCEPT !.songs = AddToSet(@, list)]
             IN  /\ playlists' = [playlists EXCEPT ![playlistId] = updatedPlaylist]
                 /\ last' = [Response("addSongs", header, Some(list), 200, auth.user,
                                      Some(playlistId), Some(Populate(updatedPlaylist)),
                                      Some(playlists[playlistId]))
                             EXCEPT !.again = /\ last.op = "addSongs"
                                              /\ last.before # None
                                              /\ last.pid = Some(playlistId)]
                 /\ UNCHANGED <<users, songs, nextPid, now, localStorage, inflight>>

\* Playlist.deleteMany({ userId }) in place of findByIdAndDelete: every
\* playlist of the caller goes
DeletePlaylistMany(header, playlistId) ==
    LET auth == authMiddleware(header, now)
    IN  IF ~auth.next THEN Reject("delete", header, auth)
        ELSE /\ playlists' = [i \in {j \in DOMAIN playlists :
                                        /\ j # playlistId
                                        /\ playlists[j].userId # auth.user[1].userId}
                                 |-> playlists[i]]
             /\ last' = Response("delete", header, None, 200, auth.user, Some(playlistId),
                                 Some([message |-> "Playlist deleted successfully!"]),
                                 IF playlistId \in DOMAIN playlists
                                 THEN Some(playlists[playlistId]) ELSE None)
             /\ UNCHANGED <<users, songs, nextPid, now, localStorage, inflight>>

DeletePlaylist(header, playlistId) ==
    LET auth == authMiddleware(header, now)
    IN  IF ~auth.next THEN Reject("delete", header, auth)
        ELSE /\ playlists' = [i \in DOMAIN playlists \ {playlistId} |-> playlists[i]]
             /\ last' = Response("delete", header, None, 200, auth.user, Some(playlistId),
                                 Some([message |-> "Playlist deleted successfully!"]),
                                 IF playlistId \in DOMAIN playlists
                                 THEN Some(playlists[playlistId]) ELSE None)
             /\ UNCHANGED <<users, songs, nextPid, now, localStorage, inflight>>

----------------------------------------------------------------------------
(* routes/playlists.js, requests that overlap in time: the request is     *)
(* received (authMiddleware, req.params and req.body read, the store      *)
(* command issued), and the store applies the command and the handler     *)
(* answers at some later point, other requests' writes coming in between.  *)

\* the playlist a request names, as the store holds it
FindById(playlistId) ==
    IF playlistId \in DOMAIN playlists THEN Some(playlists[playlistId]) ELSE None

Receive(op, header, playlistId, list) ==
    LET auth == authMiddleware(header, now)
    IN  IF ~auth.next THEN Reject(op, header, auth)
        ELSE /\ Cardinality(inflight) < MaxInflight
             /\ inflight' = inflight \cup {[op |-> op, hdr |-> header, user |-> auth.user,
                                             pid |-> playlistId, list |-> list,
                                             seen |-> FindById(playlistId)]}
             /\ UNCHANGED <<stores, now, localStorage, last>>

\* an update computed from the playlist as the request saw it on arrival and
\* written back whole
findByIdAndUpdateFromRead(r) ==
    IF r.seen = None THEN [playlists[r.pid] EXCEPT !.songs = AddToSet(@, r.list)]
    ELSE [r.seen[1] EXCEPT !.songs = AddToSet(@, r.list)]

\* Playlist.findByIdAndUpdate(id, { $addToSet: ... }, { new: true }) on a
\* playlist the store holds: one atomic update of the stored document
findByIdAndUpdate(r) == [playlists[r.pid] EXCEPT !.songs = AddToSet(@, r.list)]

\* the update sent with { upsert: true }: a playlist that is not there is
\* created from the id and the songs
ApplyPutPlaylistSongsUpsert(r) ==
    /\ r \in inflight /\ r.op = "addSongs"
    /\ inflight' = inflight \ {r}
    /\ LET found == IF r.pid \in DOMAIN playlists THEN playlists[r.pid]
                     ELSE [_id |-> r.pid, name |-> "", userId |-> 0, songs |-> <<>>]
           updatedPlaylist == [found EXCEPT !.songs = AddToSet(@, r.list)]
       IN  /\ playlists' = [i \in DOMAIN playlists \cup {r.pid} |->
                               IF i = r.pid THEN updatedPlaylist ELSE playlists[i]]
           /\ last' = [Response("addSongs", r.hdr, Some(r.list), 200, r.user,
                                Some(r.pid), Some(Populate(updatedPlaylist)), FindById(r.pid))
                       EXCEPT !.seen = r.seen]
    /\ UNCHANGED <<users, songs, nextPid, now, localStorage>>

ApplyPutPlaylistSongs(r) ==
    /\ r \in inflight /\ r.op = "addSongs"
    /\ inflight' = inflight \ {r}
    /\ IF r.pid \notin DOMAIN playlists
       THEN /\ last' = [Response("addSongs", r.hdr, Some(r.list), 200, r.user, Some(r.pid),
                                  None, None)
                         EXCEPT !.seen = r.seen]
            /\ UNCHANGED playlists
       ELSE LET updatedPlaylist == findByIdAndUpdate(r)
            IN  /\ playlists' = [playlists EXCEPT ![r.pid] = updatedPlaylist]
                /\ last' = [Response("addSongs", r.hdr, Some(r.list), 200, r.user,
                                     Some(r.pid), Some(Populate(updatedPlaylist)),
                                     Some(playlists[r.pid]))
                            EXCEPT !.seen = r.seen]
    /\ UNCHANGED <<users, songs, nextPid, now, localStorage>>

ApplyDeletePlaylist(r) ==
    /\ r \in inflight /\ r.op = "delete"
    /\ inflight' = inflight \ {r}
    /\ playlists' = [i \in DOMAIN playlists \ {r.pid} |-> playlists[i]]
    /\ last' = [Response("delete", r.hdr, None, 200, r.user, Some(r.pid),
                         Some([message |-> "Playlist deleted successfully!"]),
                         FindById(r.pid))
                EXCEPT !.seen = r.seen]
    /\ UNCHANGED <<users, songs, nextPid, now, localStorage>>

----------------------------------------------------------------------------
(* routes/songs.js *)

\* upload.single('audio') leaves req.file undefined when no file is sent, and
\* req.file.path then throws
PostSong(id, hasFile) ==
    /\ id \notin songs
    /\ IF hasFile
       THEN /\ songs' = songs \cup {id}
            /\ last' = Response("addSong", None, None, 201, None, None,
                                Some([message |-> "Song added successfully!", song |-> id]), None)
       ELSE /\ \E e \in Unhandled :
                   last' = Response("addSong", None, None, e.status, None, None, e.body, None)
            /\ UNCHANGED songs
    /\ UNCHANGED <<users, playlists, nextPid, now, localStorage, inflight>>

GetSongs ==
    /\ last' = Response("songs", None, None, 200, None, None, Some(songs), None)
    /\ UNCHANGED <<stores, now, localStorage, inflight>>

----------------------------------------------------------------------------
(* The server clock; the request answered earlier is over *)

Tick ==
    /\ \E t \in Instants : t > now /\ now' = t
    /\ last' = Idle
    /\ UNCHANGED <<stores, localStorage, inflight>>

----------------------------------------------------------------------------
(* Specifications *)

PasswordFields == {None} \cup {Some(x) : x \in Passwords}
NameFields == {None} \cup {Some(x) : x \in PlaylistNames}

RegisterStep == \E u \in Usernames, p \in PasswordFields, s \in Salts : PostRegister(u, p, s)
LoginStep == \E u \in Usernames, p \in PasswordFields : PostLogin(u, p)
\* the middleware is the same on every route: the listing is sent every
\* header, the other routes the absent and the Bearer ones; a request the
\* middleware rejects never has its parameters or body read, so one of each
\* stands for all
ListStep == \E h \in Headers : GetPlaylists(h)
CreateStep(lists) ==
    \E h \in BearerHeaders :
        IF authMiddleware(h, now).next
        THEN \E n \in NameFields, l \in lists : PostPlaylist(h, n, l)
        ELSE PostPlaylist(h, None, <<>>)
AddSongsStep(lists) ==
    \E h \in BearerHeaders :
        IF authMiddleware(h, now).next
        THEN \E id \in PlaylistIds, l \in lists : PutPlaylistSongs(h, id, l)
        ELSE PutPlaylistSongs(h, 1, <<>>)
DeleteStep ==
    \E h \in BearerHeaders :
        IF authMiddleware(h, now).next
        THEN \E id \in PlaylistIds : DeletePlaylist(h, id)
        ELSE DeletePlaylist(h, 1)
SongStep == \E id \in SongIds, f \in BOOLEAN : PostSong(id, f)
\* requests of the logged-in client, which sends "Bearer <token it holds>"
\* and a complete body
Session == Some(<<Word("Bearer"), SP, localStorage[1]>>)
SessionCreateStep(lists) ==
    localStorage # None /\ \E n \in PlaylistNames, l \in lists : PostPlaylist(Session, Some(n), l)
ReceiveAddSongsStep(lists) ==
    localStorage # None /\ \E id \in PlaylistIds, l \in lists : Receive("addSongs", Session, id, l)
ReceiveDeleteStep ==
    localStorage # None /\ \E id \in PlaylistIds : Receive("delete", Session, id, <<>>)
ApplyStep == \E r \in inflight : ApplyPutPlaylistSongs(r) \/ ApplyDeletePlaylist(r)

\* the whole server, from an empty database
Next ==
    \/ RegisterStep \/ LoginStep \/ handleLogout
    \/ CreateStep(SongLists) \/ ListStep \/ AddSongsStep(SongLists) \/ DeleteStep
    \/ SongStep \/ GetSongs
    \/ Tick

Spec == Init /\ [][Next]_vars

\* accounts and sessions over time: registration, login, logout, the clock,
\* and a protected route to present the token to
NextAuth == RegisterStep \/ LoginStep \/ handleLogout \/ ListStep \/ Tick

SpecAuth == Init /\ [][NextAuth]_vars

\* the playlist routes an hour after start-up: alice and bob have registered,
\* s1 has been uploaded (the other id refers to no song), and the browser
\* holds nothing or the token alice got at time 0, which expires now
InitPlaylists ==
    /\ users = <<[username |-> "alice", password |-> bcryptHash("pw1", "saltA")],
                 [username |-> "bob", password |-> bcryptHash("pw2", "saltB")]>>
    /\ songs = {"s1"}
    /\ playlists = <<>>
    /\ nextPid = 1
    /\ now = ExpiresIn
    /\ localStorage \in {None, Some(jwtSign([userId |-> 1, username |-> "alice"], JWT_SECRET, 0))}
    /\ last = Idle
    /\ inflight = {}

\* who may see and touch which playlist: every playlist route, over several
\* playlists of songs arrays built from requests of at most one reference
NextPlaylists ==
    \/ LoginStep \/ handleLogout
    \/ CreateStep(ShortLists) \/ ListStep \/ AddSongsStep(ShortLists) \/ DeleteStep

SpecPlaylists == InitPlaylists /\ [][NextPlaylists]_vars

\* the same with the song listing, for what each route leaves alone
NextFrame == NextPlaylists \/ GetSongs

SpecFrame == InitPlaylists /\ [][NextFrame]_vars

\* what a playlist's songs array holds: the same routes with every songs
\* array, once the earlier playlists are deleted and one more can be created;
\* s1 and s2 have been uploaded, s3 refers to no song
InitSongs ==
    /\ users = <<[username |-> "alice", password |-> bcryptHash("pw1", "saltA")],
                 [username |-> "bob", password |-> bcryptHash("pw2", "saltB")]>>
    /\ songs = {"s1", "s2"}
    /\ playlists = <<>>
    /\ nextPid = MaxPlaylists
    /\ now = ExpiresIn
    /\ localStorage = None
    /\ last = Idle
    /\ inflight = {}

NextSongs ==
    \/ LoginStep
    \/ CreateStep(SongLists) \/ AddSongsStep(SongLists) \/ DeleteStep

SpecSongs == InitSongs /\ [][NextSongs]_vars

\* requests that overlap in time: alice has just logged in, one more playlist
\* can be created, and addSongs and delete requests wait for the store while
\* other requests are received and applied
InitOverlap ==
    /\ users = <<[username |-> "alice", password |-> bcryptHash("pw1", "saltA")],
                 [username |-> "bob", password |-> bcryptHash("pw2", "saltB")]>>
    /\ songs = {"s1", "s2"}
    /\ playlists = <<>>
    /\ nextPid = MaxPlaylists
    /\ now = ExpiresIn
    /\ localStorage = Some(jwtSign([userId |-> 1, username |-> "alice"], JWT_SECRET, ExpiresIn))
    /\ last = Idle
    /\ inflight = {}

NextOverlap ==
    \/ SessionCreateStep(ShortLists)
    \/ ReceiveAddSongsStep(ShortLists) \/ ReceiveDeleteStep
    \/ ApplyStep

SpecOverlap == InitOverlap /\ [][NextOverlap]_vars

----------------------------------------------------------------------------
(* What a request presented, read off the header without the middleware *)

ProtectedOps == {"create", "list", "addSongs", "delete"}

\* the JWTs anywhere in the header
HeaderJwts(hdr) ==
    IF hdr = None THEN {}
    ELSE {c \in {hdr[1][i] : i \in DOMAIN hdr[1]} : IsJwt(c)}

\* signed with the server's secret and not yet expired at time t
Genuine(c, t) == c.sig = Sign(c.payload, JWT_SECRET) /\ t < c.payload.exp

\* the header reads "Bearer <something>"
BearerScheme(hdr) ==
    /\ hdr # None
    /\ Len(hdr[1]) >= 2
    /\ hdr[1][1] = Word("Bearer")
    /\ hdr[1][2] = SP

----------------------------------------------------------------------------
(* C1: the session middleware is fail-closed. On every protected playlist  *)
(* route the handler runs only when the header carries a token signed with *)
(* the secret and unexpired, and then req.user is that token's payload;    *)
(* otherwise the answer is 401 and the playlist collection is unchanged.   *)

FailClosedStep ==
    last'.op \in ProtectedOps =>
        IF last'.user # None
        THEN \E c \in HeaderJwts(last'.hdr) : Genuine(c, now) /\ last'.user = Some(c.payload)
        ELSE /\ last'.status = 401
             /\ playlists' = playlists
             /\ nextPid' = nextPid

C1_FailClosed == [][FailClosedStep]_vars

\* a delete of an existing playlist refused because the token was signed
\* with another key
C1_Witness ==
    /\ last.op = "delete"
    /\ last.status = 401
    /\ DOMAIN playlists # {}
    /\ \E c \in HeaderJwts(last.hdr) : c.sig # Sign(c.payload, JWT_SECRET)

----------------------------------------------------------------------------
(* C2: a header that is absent or whose scheme is not Bearer is handled as *)
(* a request with no token: 401 "No token provided", no handler.           *)

C2_SchemeRequired ==
    (last.op \in ProtectedOps /\ ~BearerScheme(last.hdr)) =>
        /\ last.status = 401
        /\ last.user = None
        /\ last.body = Some([message |-> "No token provided, authorization denied"])

----------------------------------------------------------------------------
(* C3: no playlist's song list holds the same song reference twice.        *)

C3_NoDuplicates == \A p \in DOMAIN playlists : NoDup(playlists[p].songs)

----------------------------------------------------------------------------
(* C4: addSongs(p, S1) directly followed by addSongs(p, S2) on an existing *)
(* playlist p.                                                             *)

TwoAdds ==
    /\ last.op = "addSongs" /\ last.before # None
    /\ last'.op = "addSongs" /\ last'.before # None
    /\ last'.pid = last.pid
    /\ last'.again

\* as claimed: the song set is the union of S1 and S2, with no duplicates
C4_UnionOfArguments ==
    [][TwoAdds =>
        LET result == playlists'[last.pid[1]].songs
        IN  /\ SeqToSet(result) = SeqToSet(last.arg[1]) \cup SeqToSet(last'.arg[1])
            /\ NoDup(result)]_vars

\* as amended: the song set is the union of the songs p held before the two
\* calls with S1 and S2; what p held stays as it was, and each song it did
\* not hold is appended once
C4_UnionWithPrior ==
    [][TwoAdds =>
        LET prior == last.before[1].songs
            result == playlists'[last.pid[1]].songs
            added == SubSeq(result, Len(prior) + 1, Len(result))
        IN  /\ SeqToSet(result) = SeqToSet(prior) \cup SeqToSet(last.arg[1])
                                      \cup SeqToSet(last'.arg[1])
            /\ SubSeq(result, 1, Len(prior)) = prior
            /\ NoDup(added)
            /\ SeqToSet(added) \cap SeqToSet(prior) = {}]_vars

\* the second of two overlapping addSongs has just been answered
C4_Witness ==
    /\ last.op = "addSongs" /\ last.again
    /\ SeqToSet(last.arg[1]) \cap SeqToSet(last.before[1].songs) # {}
    /\ SeqToSet(last.arg[1]) \ SeqToSet(last.before[1].songs) # {}

----------------------------------------------------------------------------
(* C5: one addSongs(p, S) on an existing playlist merges S into its songs  *)
(* as a set union: what was there stays, every song of S is there          *)
(* afterwards, nothing else is added, nothing present is added again, and  *)
(* the response is the updated playlist with its songs populated.          *)

C5_AddSongsMerges ==
    (last.op = "addSongs" /\ last.before # None) =>
        LET p == last.pid[1]
            prior == last.before[1].songs
            result == playlists[p].songs
            added == SubSeq(result, Len(prior) + 1, Len(result))
        IN  /\ last.status = 200
            /\ p \in DOMAIN playlists
            /\ SubSeq(result, 1, Len(prior)) = prior
            /\ SeqToSet(added) = SeqToSet(last.arg[1]) \ SeqToSet(prior)
            /\ NoDup(added)
            /\ playlists[p] = [last.before[1] EXCEPT !.songs = result]
            /\ last.body = Some([playlists[p] EXCEPT !.songs = Filter(result, songs)])

\* a playlist created with [s1, s2] was sent [s2, s3] and holds [s1, s2, s3]
C5_Witness ==
    /\ last.op = "addSongs" /\ last.before # None
    /\ last.before[1].songs = <<"s1", "s2">>
    /\ last.arg[1] = <<"s2", "s3">>
    /\ playlists[last.pid[1]].songs = <<"s1", "s2", "s3">>

----------------------------------------------------------------------------
(* C6: a playlist's owner is the userId of the verified token that created *)
(* it and never changes, and listing returns exactly the playlists whose   *)
(* owner is the caller.                                                    *)

OwnerStep ==
    /\ \A p \in DOMAIN playlists \cap DOMAIN playlists' :
           playlists'[p].userId = playlists[p].userId
    /\ \A p \in DOMAIN playlists' \ DOMAIN playlists :
           /\ last'.op = "create"
           /\ \E c \in HeaderJwts(last'.hdr) :
                  Genuine(c, now) /\ playlists'[p].userId = c.payload.userId
    /\ (last'.op = "list" /\ last'.user # None) =>
           \E c \in HeaderJwts(last'.hdr) :
               /\ Genuine(c, now)
               /\ last'.status = 200
               /\ {d._id : d \in SeqToSet(last'.body[1])}
                      = {p \in DOMAIN playlists : playlists[p].userId = c.payload.userId}
               /\ Len(last'.body[1])
                      = Cardinality({p \in DOMAIN playlists :
                                         playlists[p].userId = c.payload.userId})
               /\ \A d \in SeqToSet(last'.body[1]) : d.userId = c.payload.userId

C6_OwnerScoped == [][OwnerStep]_vars

\* a listing answered while two users own a playlist each
C6_Witness ==
    /\ last.op = "list" /\ last.status = 200
    /\ Len(last.body[1]) = 1
    /\ Cardinality({playlists[p].userId : p \in DOMAIN playlists}) = 2

----------------------------------------------------------------------------
(* C7: an addSongs or delete whose token's userId is not the playlist's    *)
(* owner neither changes nor removes the playlist.                         *)

C7_OwnerOnly ==
    (/\ last.op \in {"addSongs", "delete"}
     /\ last.before # None
     /\ last.user[1].userId # last.before[1].userId)
        => /\ last.pid[1] \in DOMAIN playlists
           /\ playlists[last.pid[1]] = last.before[1]

----------------------------------------------------------------------------
(* C8: a successful register followed by a login with the same credentials *)
(* succeeds with a token, and the session middleware decodes from that     *)
(* token the registered username and the _id of the registered user.       *)

\* (u, p) is what some user document was registered with
Registered(u, p) ==
    \E i \in DOMAIN users, s \in Salts :
        users[i] = [username |-> u, password |-> bcryptHash(p, s)]

RegisterThenLoginStep ==
    \A u \in Usernames, p \in Passwords :
        (/\ last'.op = "login"
         /\ last'.arg = Some([username |-> u, password |-> Some(p)])
         /\ \/ Registered(u, p)
            \/ (last.op = "register" /\ last.status = 201 /\ last.arg = last'.arg))
        => /\ last'.status = 200
           /\ DOMAIN last'.body[1] = {"message", "token"}
           /\ LET auth == authMiddleware(Some(<<Word("Bearer"), SP, last'.body[1].token>>), now')
              IN  /\ auth.next
                  /\ auth.user[1].username = u
                  /\ auth.user[1].userId \in DOMAIN users
                  /\ users[auth.user[1].userId].username = u
                  /\ \A i \in DOMAIN users : users[i].username = u => i = auth.user[1].userId

C8_RegisterThenLogin == [][RegisterThenLoginStep]_vars

\* the second user to register has just logged in
C8_Witness ==
    /\ last.op = "login" /\ last.status = 200
    /\ last.body[1].token.payload.userId = 2
    /\ localStorage = Some(last.body[1].token)

----------------------------------------------------------------------------
(* C9: a login with a wrong password for an existing username, and a login *)
(* with an unknown username, both get 400 "Invalid credentials" and no     *)
(* token: the same response.                                               *)

InvalidCredentials == [status |-> 400, body |-> Some([message |-> "Invalid credentials"])]

UnknownUsername(u) == \A i \in DOMAIN users : users[i].username # u

C9_InvalidCredentials ==
    \A u \in Usernames, p \in Passwords :
        (/\ last.op = "login"
         /\ last.arg = Some([username |-> u, password |-> Some(p)])
         /\ ~Registered(u, p))
        => [status |-> last.status, body |-> last.body] = InvalidCredentials

\* a wrong password for a registered username has just been refused
C9_Witness ==
    /\ last.op = "login" /\ last.status = 400
    /\ ~UnknownUsername(last.arg[1].username)

----------------------------------------------------------------------------
(* C10: a token issued at t expires at exactly t + 1 hour; the middleware  *)
(* accepts a presented token exactly when its signature verifies against   *)
(* the secret and the time is before its expiry; verifying changes nothing. *)

TokenLifetimeStep ==
    /\ (last'.op = "login" /\ last'.status = 200) =>
           /\ last'.body[1].token.payload.iat = now
           /\ last'.body[1].token.payload.exp = now + 3600
           /\ last'.body[1].token.sig = Sign(last'.body[1].token.payload, JWT_SECRET)
    /\ last'.op = "list" =>
           /\ UNCHANGED <<users, songs, playlists, nextPid, now, localStorage, inflight>>
           /\ \A c \in HeaderJwts(last'.hdr) :
                  last'.hdr = Some(<<Word("Bearer"), SP, c>>) =>
                      /\ last'.status = 200 <=> (c.sig = Sign(c.payload, JWT_SECRET)
                                                  /\ now < c.payload.exp)
                      /\ last'.status # 200 => last'.status = 401 /\ last'.user = None

C10_TokenLifetime == [][TokenLifetimeStep]_vars

\* the token the browser holds is refused at the very second it expires
C10_Witness ==
    /\ last.op = "list" /\ last.status = 401
    /\ localStorage # None
    /\ last.hdr = Some(<<Word("Bearer"), SP, localStorage[1]>>)
    /\ localStorage[1].payload.iat > 0
    /\ now = localStorage[1].payload.exp

----------------------------------------------------------------------------
(* C11: usernames are unique in every reachable state, and a register with *)
(* a username that already exists is answered with a 4xx {message}         *)
(* response, adds no user record and leaves the existing records as they   *)
(* were.                                                                   *)

DuplicateUsernameStep ==
    /\ \A i, j \in DOMAIN users' : users'[i].username = users'[j].username => i = j
    /\ (/\ last'.op = "register"
        /\ last'.arg[1].password # None
        /\ ~UnknownUsername(last'.arg[1].username)) =>
           /\ last'.status \in 400..499
           /\ last'.body # None
           /\ DOMAIN last'.body[1] = {"message"}
           /\ users' = users

C11_DuplicateUsername == [][DuplicateUsernameStep]_vars

----------------------------------------------------------------------------
(* C12: every failure raised while a request is handled is translated to   *)
(* an HTTP status and message, so every request is answered, and a request *)
(* that failed has changed nothing in the store.                           *)

ErrorsTranslatedStep ==
    last'.op # "idle" =>
        /\ last'.status # 0
        /\ last'.status >= 400 => (last'.body # None /\ stores' = stores)

C12_ErrorsTranslated == [][ErrorsTranslatedStep]_vars

----------------------------------------------------------------------------
(* C13: two addSongs requests on one playlist that overlap in time.        *)

\* the addSongs answered last found the playlist changed since it was
\* received: another request's write was applied while it waited
Overlapped ==
    /\ last.op = "addSongs"
    /\ last.seen # None /\ last.before # None
    /\ last.seen # last.before

\* as claimed: last write wins. The stored list is the one the request
\* applied last made of the playlist it saw, and what the other request
\* added in between is not in it
C13_LastWriteWins ==
    Overlapped =>
        LET result == playlists[last.pid[1]].songs
        IN  /\ SubSeq(result, 1, Len(last.seen[1].songs)) = last.seen[1].songs
            /\ SeqToSet(result) = SeqToSet(last.seen[1].songs) \cup SeqToSet(last.arg[1])

\* as amended: the write applied last extends the list the other write
\* left. The stored list starts with the list found at the write, which
\* starts with the list seen on arrival, and adds the request's own songs;
\* nothing the other request added is missing
C13_OverlapMerges ==
    Overlapped =>
        LET seen == last.seen[1].songs
            found == last.before[1].songs
            result == playlists[last.pid[1]].songs
        IN  /\ SeqToSet(found) \ SeqToSet(seen) \subseteq SeqToSet(result)
            /\ SeqToSet(result) = SeqToSet(found) \cup SeqToSet(last.arg[1])
            /\ Len(seen) <= Len(found) /\ Len(found) <= Len(result)
            /\ SubSeq(found, 1, Len(seen)) = seen
            /\ SubSeq(result, 1, Len(found)) = found
            /\ NoDup(SubSeq(result, Len(seen) + 1, Len(result)))

\* both overlapping requests added a song the other did not send, and the
\* playlist holds both
C13_Witness ==
    /\ Overlapped
    /\ SeqToSet(last.arg[1]) \ SeqToSet(last.before[1].songs) # {}
    /\ \E x \in SeqToSet(last.before[1].songs) :
           /\ x \notin SeqToSet(last.seen[1].songs)
           /\ x \notin SeqToSet(last.arg[1])
           /\ x \in SeqToSet(playlists[last.pid[1]].songs)

----------------------------------------------------------------------------
(* C14: a playlist id that has been deleted never exists again. A delete   *)
(* removes the playlist whatever it is; an addSongs or delete applied to   *)
(* an id the store does not hold (deleted earlier, deleted while the       *)
(* request waited, or never created) creates nothing, changes nothing in   *)
(* the store and is answered 200, addSongs with a null body.               *)

NeverAgainStep ==
    /\ \A p \in PlaylistIds :
           (p < nextPid /\ p \notin DOMAIN playlists) => p \notin DOMAIN playlists'
    /\ \A p \in DOMAIN playlists' \ DOMAIN playlists : last'.op = "create"
    /\ \A r \in inflight \ inflight' :
           /\ last'.op = r.op /\ last'.pid = Some(r.pid)
           /\ r.op = "delete" => (r.pid \notin DOMAIN playlists' /\ last'.status = 200)
           /\ r.pid \notin DOMAIN playlists =>
                  /\ stores' = stores
                  /\ last'.status = 200
                  /\ r.op = "addSongs" => last'.body = None
                  /\ r.op = "delete" =>
                         last'.body = Some([message |-> "Playlist deleted successfully!"])

C14_NeverAgain == [][NeverAgainStep]_vars

\* an addSongs received while the playlist existed was applied after the
\* playlist was deleted, and got 200 with a null body
C14_Witness ==
    /\ last.op = "addSongs" /\ last.status = 200
    /\ last.seen # None /\ last.before = None /\ last.body = None
    /\ last.pid[1] < nextPid
    /\ last.pid[1] \notin DOMAIN playlists

----------------------------------------------------------------------------
(* C15: frame of the playlist operations. addSongs(p, S) changes only the  *)
(* songs of playlist p: its name and owner, every other playlist and all   *)
(* user and song records stay as they were; delete(p) removes only p;      *)
(* listing playlists, listing songs and login change no stored record.     *)

FrameStep ==
    /\ last'.op = "addSongs" =>
           /\ UNCHANGED <<users, songs, nextPid>>
           /\ DOMAIN playlists' = DOMAIN playlists
           /\ \A p \in DOMAIN playlists :
                  IF last'.user # None /\ last'.pid = Some(p)
                  THEN playlists'[p] = [playlists[p] EXCEPT !.songs = playlists'[p].songs]
                  ELSE playlists'[p] = playlists[p]
    /\ last'.op = "delete" =>
           /\ UNCHANGED <<users, songs, nextPid>>
           /\ DOMAIN playlists' \subseteq DOMAIN playlists
           /\ \A p \in DOMAIN playlists :
                  \/ last'.user # None /\ last'.pid = Some(p)
                  \/ p \in DOMAIN playlists' /\ playlists'[p] = playlists[p]
    /\ last'.op \in {"list", "songs", "login"} => UNCHANGED stores

C15_Frame == [][FrameStep]_vars

\* a playlist was deleted and another one is still there
C15_Witness ==
    /\ last.op = "delete" /\ last.before # None
    /\ last.pid[1] \notin DOMAIN playlists
    /\ DOMAIN playlists # {}

====
